---- MODULE Spec2Model ----
(***************************************************************************)
(* The HDF5 column registry of databroker (databroker/assets/column_hdf5). *)
(*                                                                         *)
(* Strings are sequences of tokens, so that '{}/{}'.format, `in` and       *)
(* str.partition are computed and not assumed.  The directory of .h5       *)
(* files is the partial function `files` (a resource has a container iff   *)
(* its uid is in DOMAIN files), the datum cache is the partial function    *)
(* `cache`, and uuid.uuid4() is a draw from a pool that never repeats.     *)
(***************************************************************************)
EXTENDS Integers, Sequences, FiniteSets, TLC

(* ------------------------------ bounds -------------------------------- *)

\* number of uuid4 draws a behaviour may make
MaxIds == 2

\* longest column of a table handed to bulk_insert_datum
MaxRows == 2

\* the maximum entry count of the datum cache of a registry configured small
MaxCache == 1

\* self._datum_cache.max_size = 100
DatumCacheMaxSize == 100

(* ------------------------------ inputs -------------------------------- *)

SEP == "/"

\* uids of the resources insert_resource has created
Resources == {<<"r1">>, <<"r2">>}

\* a uid no insert_resource returned
UnknownUid == <<"zz">>

\* the pool uuid4 draws from, in draw order
UUIDPool == <<"u1", "u2", "u3", "u4", "u5", "u6", "u7", "u8">>

\* datum_kwargs keys, in the order a caller's dict lists them
KeyOrder == <<"v", "w">>

KeySets == {{"v"}, {"v", "w"}}

\* the values a field takes: v varies where it is the only field
ValuesOf(ks, k) ==
  IF k = "w" THEN {30} ELSE IF ks = {"v"} THEN {10, 20} ELSE {10}

Values == {10, 20, 30}

\* datum_kwargs: a flat mapping of field name to value
DatumKwargs ==
  UNION {{kw \in [ks -> Values] : \A k \in ks : kw[k] \in ValuesOf(ks, k)} :
           ks \in KeySets}

\* column mappings whose columns are all n long
EqualColumns(n) ==
  UNION {{t \in [ks -> [1..n -> Values]] :
            \A k \in ks : \A i \in 1..n : t[k][i] \in ValuesOf(ks, k)} :
           ks \in KeySets}

\* column mappings whose columns differ in length
RaggedColumns ==
  {[v |-> <<10, 10>>, w |-> <<30>>], [v |-> <<10>>, w |-> <<30, 30>>]}

\* a column mapping name -> sequence, as handed to bulk_insert_datum
Columns == UNION {EqualColumns(n) : n \in 1..MaxRows} \cup RaggedColumns

\* the DataFrames handed to bulk_register_datum_table: a frame has one
\* length for all its columns
Frames == EqualColumns(1)

EmptyMap == [x \in {} |-> {}]

VARIABLES
  files,    \* dbpath: uid |-> the datasets of <uid>.h5
  cache,    \* Registry._datum_cache: uid |-> DataFrame indexed by datum_id
  max_size, \* Registry._datum_cache.max_size
  nextId,   \* number of uuid4 draws made so far
  issued,   \* every Datum a write has returned to its caller
  last,     \* the last call, its arguments and what it returned or raised
  pc,       \* per caller: where its insert_datum or retrieve stands
  pv,       \* the FakeEpicsPV of the signal tests and its update thread
  ix        \* the Indexable of the web server and the generators over it

vars == <<files, cache, max_size, nextId, issued, last, pc, pv, ix>>

(* --------------------------- string helpers --------------------------- *)

\* str(uuid.uuid4()): the n-th draw
uuid4(n) == <<UUIDPool[n]>>

\* '{}/{}'.format(resource_uid, d)
make_datum_id(resource_uid, d) == resource_uid \o <<SEP>> \o d

\* '/' in datum_id
HasSep(s) == \E i \in 1..Len(s) : s[i] = SEP

FirstSep(s) ==
  CHOOSE i \in 1..Len(s) : s[i] = SEP /\ \A j \in 1..(i - 1) : s[j] # SEP

\* datum_id.partition('/'): <<head, tail>>, <<s, ''>> when there is no '/'
partition(s) ==
  IF HasSep(s)
  THEN <<SubSeq(s, 1, FirstSep(s) - 1), SubSeq(s, FirstSep(s) + 1, Len(s))>>
  ELSE <<s, <<>>>>

\* d.encode('utf-8') and bytes.decode('utf-8')
encode(d) == <<"b'">> \o d

decode(b) == Tail(b)

\* np.array([d.encode('utf-8') for d in d_ids])
encode_all(d_ids) == [i \in 1..Len(d_ids) |-> encode(d_ids[i])]

\* df['datum_id'].str.decode('utf-8')
decode_all(col) == [i \in 1..Len(col) |-> decode(col[i])]

(* ----------------------------- DataFrames ----------------------------- *)

\* len of the mapping instead of len of the frame: the number of columns
DataFrameLen_columns(cols) == Cardinality(DOMAIN cols)

\* len(df): the number of rows
DataFrameLen(cols) ==
  IF DOMAIN cols = {} THEN 0 ELSE Len(cols[CHOOSE k \in DOMAIN cols : TRUE])

\* pd.DataFrame(mapping) raises ValueError unless all columns are as long
SameLength(cols) == \A j, k \in DOMAIN cols : Len(cols[j]) = Len(cols[k])

\* pd.DataFrame([datum_kwargs]): one row
RowFrame(datum_kwargs) == [k \in DOMAIN datum_kwargs |-> <<datum_kwargs[k]>>]

\* the frame read from a container with the index left as stored
read_frame_undecoded(dsets) ==
  [index |-> dsets["datum_id"],
   data  |-> [k \in DOMAIN dsets \ {"datum_id"} |-> dsets[k]]]

\* the frame read from a container: decoded datum_id as the index
read_frame(dsets) ==
  [index |-> decode_all(dsets["datum_id"]),
   data  |-> [k \in DOMAIN dsets \ {"datum_id"} |-> dsets[k]]]

InIndex(df, d_uid) == \E i \in 1..Len(df.index) : df.index[i] = d_uid

\* dict(df.loc[d_uid])
loc(df, d_uid) ==
  LET i == CHOOSE j \in 1..Len(df.index) : df.index[j] = d_uid
  IN  [k \in DOMAIN df.data |-> df.data[k][i]]

(* ------------------------------ handlers ------------------------------ *)

\* get_spec_handler(r_uid)(**kwargs): the value the handler builds
handler(r_uid, kwargs) == [resource |-> r_uid, kwargs |-> kwargs]

(* ------------------------------ the store ---------------------------- *)

\* p.is_file(): the resource has a container
is_file(fs, resource) == resource \in DOMAIN fs

\* an open that leaves the new file alone in the directory
open_w_alone(fs, resource_uid, fout) == [x \in {resource_uid} |-> fout]

\* h5py.File(path, 'w'): create the file, truncating the one that is there
open_w(fs, resource_uid, fout) ==
  [x \in DOMAIN fs \cup {resource_uid} |->
     IF x = resource_uid THEN fout ELSE fs[x]]

\* databroker.headersource.hdf5.append: grow the dataset by the new rows
append(dset, rows) == dset \o rows

\* what a write hands back: the ids it returns, the store and the draw count
Written(kind, ids, fs, nid) ==
  [kind |-> kind, ids |-> ids, files |-> fs, nextId |-> nid]

\* lines 45-59: draw the ids, write the container, return the ids
register_rows(fs, nid, resource_uid, dkwargs_table) ==
  LET n == DataFrameLen(dkwargs_table)
      d_ids == [j \in 1..n |-> uuid4(nid + j)]
      datum_ids == [j \in 1..n |-> make_datum_id(resource_uid, d_ids[j])]
      fout == [k \in DOMAIN dkwargs_table \cup {"datum_id"} |->
                 IF k = "datum_id" THEN encode_all(d_ids)
                 ELSE dkwargs_table[k]]
  IN  Written("ok", datum_ids, open_w(fs, resource_uid, fout), nid + n)

\* bulk_register_datum_table with the flag ignored
bulk_register_unvalidated(fs, nid, resource_uid, dkwargs_table, validate) ==
  register_rows(fs, nid, resource_uid, dkwargs_table)

\* `if validate: raise` with no exception being handled is a RuntimeError
bulk_register_datum_table(fs, nid, resource_uid, dkwargs_table, validate) ==
  IF validate
  THEN Written("RuntimeError", <<>>, fs, nid)
  ELSE register_rows(fs, nid, resource_uid, dkwargs_table)

\* bulk_insert_datum without the DataFrame construction of line 104
bulk_insert_datum_as_given(fs, nid, resource, datum_kwarg_list) ==
  bulk_register_datum_table(fs, nid, resource, datum_kwarg_list, FALSE)

bulk_insert_datum(fs, nid, resource, datum_kwarg_list) ==
  IF ~SameLength(datum_kwarg_list)
  THEN Written("ValueError", <<>>, fs, nid)
  ELSE bulk_register_datum_table(fs, nid, resource, datum_kwarg_list, FALSE)

\* the branch of insert_datum taken when p.is_file() was true
insert_datum_append(fs, nid, resource, datum_kwargs) ==
  LET d_id == uuid4(nid + 1)
      f0 == fs[resource]
      Given(k) == k \in DOMAIN datum_kwargs
      keys == SelectSeq(KeyOrder, Given)
      bad == {i \in 1..Len(keys) : keys[i] \notin DOMAIN f0}
      stop == IF bad = {} THEN Len(keys) + 1
              ELSE CHOOSE i \in bad : \A j \in bad : i <= j
      done == {keys[i] : i \in 1..(stop - 1)}
      fout == [k \in DOMAIN f0 |->
                 IF k = "datum_id" THEN append(f0[k], <<encode(d_id)>>)
                 ELSE IF k \in done THEN append(f0[k], <<datum_kwargs[k]>>)
                 ELSE f0[k]]
      fs1 == [fs EXCEPT ![resource] = fout]
  IN  IF bad = {}
      THEN Written("ok", <<make_datum_id(resource, d_id)>>, fs1, nid + 1)
      ELSE Written("KeyError", <<>>, fs1, nid + 1)

\* insert_datum once p.is_file() has answered `exists`
insert_datum_write(fs, nid, resource, datum_kwargs, exists) ==
  IF exists
  THEN insert_datum_append(fs, nid, resource, datum_kwargs)
  ELSE bulk_register_datum_table(fs, nid, resource, RowFrame(datum_kwargs),
                                 FALSE)

insert_datum(fs, nid, resource, datum_kwargs) ==
  insert_datum_write(fs, nid, resource, datum_kwargs, is_file(fs, resource))

(* ------------------------------ retrieval ----------------------------- *)

\* get_spec_handler(r_uid): the resource must be known
get_spec_handler(r_uid) ==
  IF r_uid \in Resources THEN "ok" ELSE "ResourceNotFound"

Read(kind, value, dc) == [kind |-> kind, value |-> value, cache |-> dc]

\* handler(**dict(df.loc[d_uid]))
lookup(df, r_uid, d_uid, dc) ==
  IF InIndex(df, d_uid)
  THEN Read("ok", {handler(r_uid, loc(df, d_uid))}, dc)
  ELSE Read("KeyError", {}, dc)

\* lines 65-77: split the id, find the handler, the frame and the row
retrieve_split(fs, dc, datum_id) ==
  LET r_uid == partition(datum_id)[1]
      d_uid == partition(datum_id)[2]
  IN  IF get_spec_handler(r_uid) # "ok"
      THEN Read(get_spec_handler(r_uid), {}, dc)
      ELSE IF r_uid \in DOMAIN dc
      THEN lookup(dc[r_uid], r_uid, d_uid, dc)
      ELSE IF ~is_file(fs, r_uid)
      THEN Read("OSError", {}, dc)
      ELSE IF ~SameLength(fs[r_uid])
      THEN Read("ValueError", {}, dc)
      ELSE
        LET df == read_frame(fs[r_uid])
            dc1 == [x \in DOMAIN dc \cup {r_uid} |->
                      IF x = r_uid THEN df ELSE dc[x]]
        IN  lookup(df, r_uid, d_uid, dc1)

\* retrieve with the test of line 63 dropped
retrieve_unguarded(fs, dc, datum_id) == retrieve_split(fs, dc, datum_id)

retrieve(fs, dc, datum_id) ==
  IF ~HasSep(datum_id)
  THEN Read("DatumNotFound", {}, dc)
  ELSE retrieve_split(fs, dc, datum_id)

\* resource_given_datum_id returning the other half of the split
resource_given_datum_id_tail(datum_id) == partition(datum_id)[2]

\* lines 96-98: the part of the id before its first '/', nothing else read
resource_given_datum_id(datum_id) == partition(datum_id)[1]

\* the store of line 75 on a cache that never discards
lru_store_unbounded(dc, dc1, ms) == {dc1}

\* datum_cache[r_uid] = df on a cache that keeps at most ms entries: dc is
\* the cache before the store and dc1 the cache with the entry added; a full
\* cache gives up one of the entries it held, whichever the cache picks
lru_store(dc, dc1, ms) ==
  IF Cardinality(DOMAIN dc1) <= ms
  THEN {dc1}
  ELSE {[x \in DOMAIN dc1 \ {v} |-> dc1[x]] : v \in DOMAIN dc}

\* list(get_datum_by_res_gen(datum_col, resource_uid))
get_datum_by_res_gen(fs, resource_uid) ==
  IF ~is_file(fs, resource_uid)
  THEN [kind |-> "OSError", gen |-> <<>>]
  ELSE IF ~SameLength(fs[resource_uid])
  THEN [kind |-> "ValueError", gen |-> <<>>]
  ELSE
    LET df == read_frame(fs[resource_uid])
    IN  [kind |-> "ok",
         gen  |-> [i \in 1..Len(df.index) |->
                     [datum_id |-> df.index[i],
                      resource |-> resource_uid,
                      datum_kwargs |-> loc(df, df.index[i])]]]

(* ------------------------ what a call leaves behind -------------------- *)

\* the datum ids a caller may hand to retrieve: the ids it was given, and
\* strings no write returned
DatumIdInputs(given) ==
  {x.datum_id : x \in given}
    \cup {make_datum_id(r, <<"u0">>) : r \in Resources}
    \cup {make_datum_id(UnknownUid, uuid4(1)), <<"not-a-valid-id">>, <<"r1">>}

\* a call as its caller saw it.  pre: the container existed when the call
\* wrote or read; path: the branch a write took
Outcome(op, res, pre, path, id, kw, tab, kind, ids, value, gen) ==
  [op |-> op, res |-> res, pre |-> pre, path |-> path, id |-> id, kw |-> kw,
   tab |-> tab, kind |-> kind, ids |-> ids, value |-> value, gen |-> gen,
   validate |-> FALSE, evicted |-> {}]

\* a Datum handed back to a caller, with the call and the branch it came from
Datum(resource, datum_id, datum_kwargs, op, path) ==
  [resource |-> resource, datum_id |-> datum_id,
   datum_kwargs |-> datum_kwargs, op |-> op, path |-> path]

\* the Datums insert_datum returns: dict(resource=, datum_id=, datum_kwargs=)
Returned(w, resource, datum_kwargs, path) ==
  {Datum(resource, w.ids[j], datum_kwargs, "insert_datum", path) :
     j \in 1..Len(w.ids)}

\* row j of a table, over the columns that have a j-th entry: the kwargs
\* the j-th returned id stands for
TableRow(tab, j) ==
  [k \in {c \in DOMAIN tab : j <= Len(tab[c])} |-> tab[k][j]]

Path(exists) == IF exists THEN "append" ELSE "bulk"

\* the branch a retrieve took at lines 69-75: the frame came from the cache
\* ("hit"), was read and stored ("fill"; "refill" over an entry stored
\* meanwhile), or the call raised before it had one ("")
CachePath(dc, dc1, r_uid, kind) ==
  IF kind \in {"DatumNotFound", "ResourceNotFound"} THEN ""
  ELSE IF r_uid \notin DOMAIN dc1 THEN ""
  ELSE IF r_uid \notin DOMAIN dc THEN "fill"
  ELSE IF dc1 = dc THEN "hit" ELSE "refill"

\* a caller between calls; inside a call: the step it is at, the resource,
\* the kwargs of its insert_datum, the id and the frame of its retrieve
Idle == [at |-> "idle", res |-> <<>>, kw |-> EmptyMap, id |-> <<>>,
         df |-> EmptyMap]

Procs == {"p1", "p2"}

\* no FakeEpicsPV has been built
NoPV ==
  [pvname |-> "", main |-> "none", thread |-> "none", connected |-> FALSE,
   value |-> "None", update |-> FALSE, has_callbacks |-> FALSE,
   callbacks |-> {}, last_value |-> "None", conn_called |-> FALSE,
   seen |-> EmptyMap, waited |-> "no", lock |-> "free", put |-> "None",
   call |-> [by |-> "none", lock |-> "free", order |-> <<>>]]

\* no Indexable has been built
NoIndexable ==
  [source |-> <<>>, it |-> 0, taken |-> <<>>, already_computed |-> <<>>,
   gen |-> EmptyMap, ret |-> [op |-> "none"]]

Init ==
  /\ files = EmptyMap
  /\ cache = EmptyMap
  /\ max_size = DatumCacheMaxSize
  /\ nextId = 0
  /\ issued = {}
  /\ last = Outcome("init", <<>>, FALSE, "", <<>>, EmptyMap, EmptyMap, "ok",
                    <<>>, {}, <<>>)
  /\ pc = [p \in Procs |-> Idle]
  /\ pv = NoPV
  /\ ix = NoIndexable

(* ------------------------- one caller at a time ------------------------ *)

InsertDatum(resource, datum_kwargs) ==
  LET w == insert_datum(files, nextId, resource, datum_kwargs)
      exists == is_file(files, resource)
  IN  /\ nextId < MaxIds
      /\ files' = w.files
      /\ nextId' = w.nextId
      /\ issued' = issued \cup Returned(w, resource, datum_kwargs, Path(exists))
      /\ last' = Outcome("insert_datum", resource, exists, Path(exists), <<>>,
                         datum_kwargs, EmptyMap, w.kind, w.ids, {}, <<>>)
      /\ UNCHANGED <<ix, pv, cache, max_size, pc>>

BulkInsertDatum(resource, datum_kwarg_list) ==
  LET w == bulk_insert_datum(files, nextId, resource, datum_kwarg_list)
  IN  /\ \A k \in DOMAIN datum_kwarg_list :
           nextId + Len(datum_kwarg_list[k]) <= MaxIds
      /\ files' = w.files
      /\ nextId' = w.nextId
      /\ issued' = issued \cup
           {Datum(resource, w.ids[j], TableRow(datum_kwarg_list, j),
                  "bulk_insert_datum", "bulk") : j \in 1..Len(w.ids)}
      /\ last' = Outcome("bulk_insert_datum", resource,
                         is_file(files, resource), "bulk", <<>>, EmptyMap,
                         datum_kwarg_list, w.kind, w.ids, {}, <<>>)
      /\ UNCHANGED <<ix, pv, cache, max_size, pc>>

\* api.bulk_register_datum_table called with a frame and the validate flag;
\* with validate False it is the call bulk_insert_datum makes at line 107
BulkRegisterDatumTable(resource_uid, dkwargs_table, validate) ==
  LET w == bulk_register_datum_table(files, nextId, resource_uid,
                                     dkwargs_table, validate)
  IN  /\ nextId + DataFrameLen(dkwargs_table) <= MaxIds
      /\ files' = w.files
      /\ nextId' = w.nextId
      /\ issued' = issued \cup
           {Datum(resource_uid, w.ids[j], TableRow(dkwargs_table, j),
                  "bulk_register_datum_table", "bulk") : j \in 1..Len(w.ids)}
      /\ last' = [Outcome("bulk_register_datum_table", resource_uid,
                          is_file(files, resource_uid), "bulk", <<>>,
                          EmptyMap, dkwargs_table, w.kind, w.ids, {}, <<>>)
                    EXCEPT !.validate = validate]
      /\ UNCHANGED <<ix, pv, cache, max_size, pc>>

Retrieve(datum_id) ==
  LET r == retrieve(files, cache, datum_id)
  IN  /\ cache' \in lru_store(cache, r.cache, max_size)
      /\ last' = [Outcome("retrieve", partition(datum_id)[1],
                          is_file(files, partition(datum_id)[1]),
                          CachePath(cache, r.cache, partition(datum_id)[1],
                                    r.kind),
                          datum_id, EmptyMap, EmptyMap, r.kind, <<>>, r.value,
                          <<>>)
                    EXCEPT !.evicted = DOMAIN cache \ DOMAIN cache']
      /\ UNCHANGED <<ix, pv, files, max_size, nextId, issued, pc>>

GetDatumByResGen(resource_uid) ==
  LET g == get_datum_by_res_gen(files, resource_uid)
  IN  /\ last' = Outcome("get_datum_by_res_gen", resource_uid,
                         is_file(files, resource_uid), "", <<>>, EmptyMap,
                         EmptyMap, g.kind, <<>>, {}, g.gen)
      /\ UNCHANGED <<ix, pv, files, cache, max_size, nextId, issued, pc>>

\* api.resource_given_datum_id on an id a write returned, or on a string
\* without '/'
ResourceGivenDatumId(datum_id) ==
  /\ last' = Outcome("resource_given_datum_id",
                     resource_given_datum_id(datum_id), FALSE, "", datum_id,
                     EmptyMap, EmptyMap, "ok", <<>>, {}, <<>>)
  /\ UNCHANGED <<ix, pv, files, cache, max_size, nextId, issued, pc>>

Next ==
  \/ \E r \in Resources, kw \in DatumKwargs : InsertDatum(r, kw)
  \/ \E r \in Resources, t \in Columns : BulkInsertDatum(r, t)
  \/ \E r \in Resources, t \in Frames : BulkRegisterDatumTable(r, t, TRUE)
  \/ \E d \in DatumIdInputs(issued) : Retrieve(d)
  \/ \E r \in Resources : GetDatumByResGen(r)

Spec == Init /\ [][Next]_vars

\* the writes and the split of the ids they return
NextIds ==
  \/ \E r \in Resources, kw \in DatumKwargs : InsertDatum(r, kw)
  \/ \E r \in Resources, t \in Columns : BulkInsertDatum(r, t)
  \/ \E d \in {x.datum_id : x \in issued} \cup {<<"not-a-valid-id">>} :
       ResourceGivenDatumId(d)

SpecIds == Init /\ [][NextIds]_vars

(* ------------------ two callers reading at the same time -------------- *)
(* retrieve looks the frame up in the cache, reads the container on a miss *)
(* and stores the frame afterwards; no lock is held over the three steps.  *)

Reading == {p \in Procs : pc[p].at \in {"read", "fill"}}

\* insert_datum while no retrieve is under way on the resource: callers keep
\* writes to a resource apart from reads of it
InsertDatumQuiet(resource, datum_kwargs) ==
  /\ \A p \in Reading : pc[p].res # resource
  /\ InsertDatum(resource, datum_kwargs)

\* what a retrieve that ended leaves in `last`
RetrieveReturn(datum_id, path, r) ==
  Outcome("retrieve", partition(datum_id)[1],
          is_file(files, partition(datum_id)[1]), path, datum_id, EmptyMap,
          EmptyMap, r.kind, <<>>, r.value, <<>>)

\* lines 63-70: the id test, the handler and the look in the cache
RetrieveLookup(p, datum_id) ==
  LET r_uid == partition(datum_id)[1]
      d_uid == partition(datum_id)[2]
  IN  /\ pc[p].at = "idle"
      /\ IF ~HasSep(datum_id)
         THEN /\ last' = RetrieveReturn(datum_id, "",
                                        Read("DatumNotFound", {}, cache))
              /\ pc' = pc
         ELSE IF get_spec_handler(r_uid) # "ok"
         THEN /\ last' = RetrieveReturn(datum_id, "",
                                        Read(get_spec_handler(r_uid), {}, cache))
              /\ pc' = pc
         ELSE IF r_uid \in DOMAIN cache
         THEN /\ last' = RetrieveReturn(datum_id, "hit",
                                        lookup(cache[r_uid], r_uid, d_uid, cache))
              /\ pc' = pc
         ELSE /\ last' = last
              /\ pc' = [pc EXCEPT ![p] = [Idle EXCEPT !.at = "read",
                                                      !.res = r_uid,
                                                      !.id = datum_id]]
      /\ UNCHANGED <<ix, pv, files, cache, max_size, nextId, issued>>

\* lines 71-74: read the container into a frame indexed by datum_id
RetrieveRead(p) ==
  LET r_uid == pc[p].res
  IN  /\ pc[p].at = "read"
      /\ IF ~is_file(files, r_uid)
         THEN /\ last' = RetrieveReturn(pc[p].id, "", Read("OSError", {}, cache))
              /\ pc' = [pc EXCEPT ![p] = Idle]
         ELSE IF ~SameLength(files[r_uid])
         THEN /\ last' = RetrieveReturn(pc[p].id, "",
                                        Read("ValueError", {}, cache))
              /\ pc' = [pc EXCEPT ![p] = Idle]
         ELSE /\ last' = last
              /\ pc' = [pc EXCEPT ![p].at = "fill",
                                  ![p].df = read_frame(files[r_uid])]
      /\ UNCHANGED <<ix, pv, files, cache, max_size, nextId, issued>>

\* lines 75-77: store the frame in the cache and look the row up in it
RetrieveFill(p) ==
  LET r_uid == pc[p].res
      df == pc[p].df
      dc1 == [x \in DOMAIN cache \cup {r_uid} |->
                IF x = r_uid THEN df ELSE cache[x]]
  IN  /\ pc[p].at = "fill"
      /\ cache' \in lru_store(cache, dc1, max_size)
      /\ last' = [RetrieveReturn(pc[p].id,
                                 IF r_uid \in DOMAIN cache THEN "refill"
                                 ELSE "fill",
                                 lookup(df, r_uid, partition(pc[p].id)[2], dc1))
                    EXCEPT !.evicted = DOMAIN cache \ DOMAIN cache']
      /\ pc' = [pc EXCEPT ![p] = Idle]
      /\ UNCHANGED <<ix, pv, files, max_size, nextId, issued>>

NextRead ==
  \/ \E r \in Resources, kw \in DatumKwargs : InsertDatumQuiet(r, kw)
  \/ \E p \in Procs, d \in DatumIdInputs(issued) : RetrieveLookup(p, d)
  \/ \E p \in Procs : RetrieveRead(p)
  \/ \E p \in Procs : RetrieveFill(p)

SpecRead == Init /\ [][NextRead]_vars

\* a registry whose datum cache is configured to hold MaxCache entries
InitCache ==
  /\ files = EmptyMap
  /\ cache = EmptyMap
  /\ max_size = MaxCache
  /\ nextId = 0
  /\ issued = {}
  /\ last = Outcome("init", <<>>, FALSE, "", <<>>, EmptyMap, EmptyMap, "ok",
                    <<>>, {}, <<>>)
  /\ pc = [p \in Procs |-> Idle]
  /\ pv = NoPV
  /\ ix = NoIndexable

SpecCache == InitCache /\ [][Next]_vars

(* ------------------- two callers writing at the same time -------------- *)
(* insert_datum reads p.is_file() and writes afterwards; nothing holds the *)
(* container between the two, so another caller may run in the gap.        *)

Pending == {p \in Procs : pc[p].at # "idle"}

\* lines 111-113: resolve the uid and look for the container
InsertDatumCheck(p, resource, datum_kwargs) ==
  /\ pc[p].at = "idle"
  /\ nextId + Cardinality(Pending) < MaxIds
  /\ pc' = [pc EXCEPT ![p] = [Idle EXCEPT !.at = Path(is_file(files, resource)),
                                          !.res = resource,
                                          !.kw = datum_kwargs]]
  /\ UNCHANGED <<ix, pv, files, cache, max_size, nextId, issued, last>>

\* lines 114-127: write on the branch the check chose, and return
InsertDatumWrite(p) ==
  LET resource == pc[p].res
      datum_kwargs == pc[p].kw
      w == insert_datum_write(files, nextId, resource, datum_kwargs,
                              pc[p].at = "append")
  IN  /\ pc[p].at # "idle"
      /\ files' = w.files
      /\ nextId' = w.nextId
      /\ issued' = issued \cup Returned(w, resource, datum_kwargs, pc[p].at)
      /\ last' = Outcome("insert_datum", resource, is_file(files, resource),
                         pc[p].at, <<>>, datum_kwargs, EmptyMap, w.kind, w.ids,
                         {}, <<>>)
      /\ pc' = [pc EXCEPT ![p] = Idle]
      /\ UNCHANGED <<ix, pv, cache, max_size>>

NextConc ==
  \/ \E p \in Procs, r \in Resources, kw \in DatumKwargs :
       InsertDatumCheck(p, r, kw)
  \/ \E p \in Procs : InsertDatumWrite(p)

SpecConc == Init /\ [][NextConc]_vars

(* ------------------ FakeEpicsPV and its update thread ------------------ *)
(* tests/test_signal.py.  __init__ starts the thread that runs             *)
(* _update_loop and goes on to create the callback table; the thread       *)
(* sleeps, calls the connection callback, connects and then loops.  The    *)
(* sleeps order nothing: a step after a sleep may come at any later time.  *)

\* number of value callbacks a PV gets registered
MaxCallbacks == 2

\* FakeEpicsPV.fake_values = (0.1, 0.2, 0.3)
fake_values == <<"0.1", "0.2", "0.3">>

\* the values handed to put
PutValues == {"0.5", "0.6"}

PVNames == {"does_not_connect", "connects"}

\* lines 29-50 of __init__ done: attributes set and the thread started
NewPV(pvname) ==
  [pvname |-> pvname, main |-> "init_callbacks", thread |-> "sleep",
   connected |-> FALSE, value |-> fake_values[1], update |-> TRUE,
   has_callbacks |-> FALSE, callbacks |-> {}, last_value |-> "None",
   conn_called |-> FALSE, seen |-> EmptyMap, waited |-> "no",
   lock |-> "free", put |-> "None",
   call |-> [by |-> "none", lock |-> "free", order |-> <<>>]]

InitPV ==
  /\ files = EmptyMap
  /\ cache = EmptyMap
  /\ max_size = DatumCacheMaxSize
  /\ nextId = 0
  /\ issued = {}
  /\ last = Outcome("init", <<>>, FALSE, "", <<>>, EmptyMap, EmptyMap, "ok",
                    <<>>, {}, <<>>)
  /\ pc = [p \in Procs |-> Idle]
  /\ \E n \in PVNames : pv = NewPV(n)
  /\ ix = NoIndexable

Registry == <<files, cache, max_size, nextId, issued, last, pc, ix>>

\* run_callback(index) for every index in `which`: each is called with
\* value=self.value
run_callbacks(seen, which, value) ==
  [i \in DOMAIN seen \cup which |-> IF i \in which THEN value ELSE seen[i]]

\* line 53: self.callbacks = {}
InitCallbacks ==
  /\ pv.main = "init_callbacks"
  /\ pv' = [pv EXCEPT !.main = "init_add", !.has_callbacks = TRUE,
                      !.callbacks = {}]
  /\ UNCHANGED Registry

\* lines 55-56: add_callback(callback) for the callback given to __init__
InitAddCallback ==
  /\ pv.main = "init_add"
  /\ pv' = [pv EXCEPT !.main = "ready", !.callbacks = {1}]
  /\ UNCHANGED Registry

\* lines 75-77: the connect delay is over, the connection callback is called
ConnectionCallback ==
  /\ pv.thread = "sleep"
  /\ pv' = [pv EXCEPT !.thread = "check", !.conn_called = TRUE]
  /\ UNCHANGED Registry

\* lines 79-83: return for 'does_not_connect', else connect
Connect ==
  /\ pv.thread = "check"
  /\ pv' = IF pv.pvname = "does_not_connect"
           THEN [pv EXCEPT !.thread = "done"]
           ELSE [pv EXCEPT !.thread = "loop", !.connected = TRUE,
                           !.last_value = "None"]
  /\ UNCHANGED Registry

\* sorted(list(self.callbacks.keys())): the indexes, smallest first
RECURSIVE sorted(_)
sorted(keys) ==
  IF keys = {} THEN <<>>
  ELSE LET least == CHOOSE i \in keys : \A j \in keys : i <= j
       IN  <<least>> \o sorted(keys \ {least})

\* who called callbacks last, what the lock was then, and in which order
Call(by, lock, order) == [by |-> by, lock |-> lock, order |-> order]

\* lines 85-93: the loop takes the lock, draws a value unless put has
\* switched updates off, and runs the callbacks if the value is new.
\* run_callbacks reads self.callbacks: an AttributeError ends the thread (and
\* leaves the with block) if __init__ has not created it yet
UpdateLoop(choice) ==
  LET value == IF pv.update THEN choice ELSE pv.value
  IN  /\ pv.thread = "loop"
      /\ pv.lock = "free"
      /\ pv' = IF value = pv.last_value
               THEN [pv EXCEPT !.value = value, !.thread = "locked",
                               !.lock = "loop"]
               ELSE IF ~pv.has_callbacks
               THEN [pv EXCEPT !.value = value, !.thread = "dead"]
               ELSE [pv EXCEPT !.value = value, !.last_value = value,
                               !.thread = "locked", !.lock = "loop",
                               !.seen = run_callbacks(pv.seen, pv.callbacks,
                                                      value),
                               !.call = Call("loop", "loop",
                                             sorted(pv.callbacks))]
      /\ UNCHANGED Registry

\* lines 95-97: the sleep inside the with block is over, the lock is released
Unlock ==
  /\ pv.thread = "locked"
  /\ pv' = [pv EXCEPT !.thread = "loop", !.lock = "free"]
  /\ UNCHANGED Registry

\* lines 65-67: wait_for_connection is called
WaitForConnection ==
  /\ pv.main = "ready"
  /\ pv.waited = "no"
  /\ pv' = [pv EXCEPT !.waited = IF pv.pvname = "does_not_connect"
                                 THEN "False" ELSE "waiting"]
  /\ UNCHANGED Registry

\* lines 69-72: the polling loop sees _connected and returns True
WaitReturns ==
  /\ pv.waited = "waiting"
  /\ pv.connected
  /\ pv' = [pv EXCEPT !.waited = "True"]
  /\ UNCHANGED Registry

\* lines 131-143: add_callback(callback, run_now=run_now)
AddCallback(run_now) ==
  LET index == Cardinality(pv.callbacks) + 1
  IN  /\ pv.main = "ready"
      /\ index <= MaxCallbacks
      /\ pv' = [pv EXCEPT !.callbacks = pv.callbacks \cup {index},
                          !.seen = IF run_now /\ pv.connected
                                   THEN run_callbacks(pv.seen, {index}, pv.value)
                                   ELSE pv.seen,
                          !.call = IF run_now /\ pv.connected
                                   THEN Call("add_callback", pv.lock, <<index>>)
                                   ELSE pv.call]
      /\ UNCHANGED Registry

\* lines 183-188: put(value), once the lock is free
Put(value) ==
  /\ pv.main = "ready"
  /\ pv.lock = "free"
  /\ pv' = [pv EXCEPT !.update = FALSE, !.value = value, !.put = value]
  /\ UNCHANGED Registry

Thread ==
  \/ ConnectionCallback
  \/ Connect
  \/ \E choice \in {fake_values[i] : i \in 1..Len(fake_values)} :
       UpdateLoop(choice)
  \/ Unlock

NextPV ==
  \/ InitCallbacks
  \/ InitAddCallback
  \/ Thread
  \/ WaitForConnection
  \/ WaitReturns
  \/ \E run_now \in BOOLEAN : AddCallback(run_now)
  \/ \E value \in PutValues : Put(value)

\* the update thread, the rest of __init__ and the polling loop of
\* wait_for_connection keep running; callers call when they like
SpecPV ==
  /\ InitPV
  /\ [][NextPV]_vars
  /\ WF_vars(Thread)
  /\ WF_vars(InitCallbacks \/ InitAddCallback)
  /\ WF_vars(WaitReturns)

(* ------------------------ Indexable and its generators ----------------- *)
(* mdsweb/server/utils.py.  An Indexable takes iter(it) once; __iter__ is  *)
(* a generator function and __getitem__ a method, and both read the same   *)
(* iterator self.it and add to self.already_computed.  A call of next() on *)
(* a generator runs its body up to the next yield.                         *)

\* length of the longest iterable an Indexable is built on
MaxSource == 3

\* what the iterable yields: two values, so that a sequence may repeat one
Elts == {"a", "b"}

Sources == UNION {[1..len -> Elts] : len \in 0..MaxSource}

\* the generators that calls of __iter__ have returned
Generators == {"g1", "g2"}

\* what the last call on the Indexable or on a generator gave back
Ret(op, index, n, res, value) ==
  [op |-> op, index |-> index, n |-> n, res |-> res, value |-> value]

\* Indexable(it): self.it is the position in the source, taken counts how
\* often each element of the source has been handed out by self.it
NewIndexable(it) ==
  [source |-> it, it |-> 0, taken |-> [i \in 1..Len(it) |-> 0],
   already_computed |-> <<>>, gen |-> [g \in Generators |-> "none"],
   ret |-> Ret("init", 0, 0, "ok", "")]

InitIx ==
  /\ files = EmptyMap
  /\ cache = EmptyMap
  /\ max_size = DatumCacheMaxSize
  /\ nextId = 0
  /\ issued = {}
  /\ last = Outcome("init", <<>>, FALSE, "", <<>>, EmptyMap, EmptyMap, "ok",
                    <<>>, {}, <<>>)
  /\ pc = [p \in Procs |-> Idle]
  /\ pv = NoPV
  /\ \E it \in Sources : ix = NewIndexable(it)

NotIndexable == <<files, cache, max_size, nextId, issued, last, pc, pv>>

\* itertools.islice(self.it, n): the next n elements of the iterator, or
\* all that are left when there are fewer
islice(source, it, n) ==
  SubSeq(source, it + 1, IF it + n < Len(source) THEN it + n ELSE Len(source))

\* the Indexable after self.it has handed out k more elements
advance(x, k) ==
  [x EXCEPT !.it = x.it + k,
            !.taken = [i \in DOMAIN x.taken |->
                         IF x.it < i /\ i <= x.it + k THEN x.taken[i] + 1
                         ELSE x.taken[i]]]

\* n = max_idx - len(self.already_computed), one short of the code's n
n_one_short(max_idx, already_computed) == max_idx - Len(already_computed)

\* n = max_idx - len(self.already_computed) + 1
n_missing(max_idx, already_computed) == max_idx - Len(already_computed) + 1

\* iter(indexable): __iter__ returns a generator, its body has not run yet
Iter(g) ==
  /\ ix.gen[g] = "none"
  /\ ix' = [ix EXCEPT !.gen[g] = "created"]
  /\ UNCHANGED NotIndexable

\* next(g): the for loop takes an element from self.it, appends it and
\* yields it; the generator ends when self.it has run out
GeneratorNext(g) ==
  /\ ix.gen[g] \in {"created", "suspended"}
  /\ IF ix.it < Len(ix.source)
       THEN LET elt == ix.source[ix.it + 1]
            IN  ix' = [advance(ix, 1) EXCEPT
                         !.already_computed = Append(@, elt),
                         !.gen[g] = "suspended",
                         !.ret = Ret("next", 0, 0, "yield", elt)]
       ELSE ix' = [ix EXCEPT !.gen[g] = "done",
                             !.ret = Ret("next", 0, 0, "StopIteration", "")]
  /\ UNCHANGED NotIndexable

\* indexable[index] for an integer index: index.stop raises AttributeError,
\* so max_idx is the index itself
GetItem(index) ==
  LET n == n_missing(index, ix.already_computed)
      got == IF n > 0 THEN islice(ix.source, ix.it, n) ELSE <<>>
      computed == ix.already_computed \o got
  IN  /\ ix' = [advance(ix, Len(got)) EXCEPT
                  !.already_computed = computed,
                  !.ret = IF index < Len(computed)
                            THEN Ret("getitem", index, n, "ok",
                                     computed[index + 1])
                            ELSE Ret("getitem", index, n, "IndexError", "")]
      /\ UNCHANGED NotIndexable

NextIx ==
  \/ \E g \in Generators : Iter(g)
  \/ \E g \in Generators : GeneratorNext(g)
  \/ \E index \in 0..Len(ix.source) : GetItem(index)

SpecIx == InitIx /\ [][NextIx]_vars

(* ------------------------ vocabulary of the claims --------------------- *)

NoSlash(s) == \A i \in 1..Len(s) : s[i] # "/"

\* the part of a datum id after its first '/'
LocalId(datum_id) == partition(datum_id)[2]

IssuedOn(r) == {x \in issued : x.resource = r}

\* the local id is a row of the resource's container
Stored(fs, r, d_uid) ==
  /\ is_file(fs, r)
  /\ \E i \in 1..Len(fs[r]["datum_id"]) : fs[r]["datum_id"][i] = encode(d_uid)

\* the local id is a row of the row table cached for the resource
Cached(dc, r, d_uid) == r \in DOMAIN dc /\ InIndex(dc[r], d_uid)

\* retrieve on the Datum's id gives the handler's value for its kwargs
RoundTrips(fs, dc, x) ==
  /\ retrieve(fs, dc, x.datum_id).kind = "ok"
  /\ retrieve(fs, dc, x.datum_id).value = {handler(x.resource, x.datum_kwargs)}

\* all that was ever written to r are insert_datum calls that succeeded,
\* every one with the same key set
InsertOnly(fs, given, r) ==
  LET on == {x \in given : x.resource = r}
  IN  /\ is_file(fs, r)
      /\ \A x \in on : x.op = "insert_datum"
      /\ \A x, y \in on : DOMAIN x.datum_kwargs = DOMAIN y.datum_kwargs
      /\ Len(fs[r]["datum_id"]) = Cardinality(on)

IsPrefix(s, t) == Len(s) <= Len(t) /\ SubSeq(t, 1, Len(s)) = s

(* ------------------------------- claims -------------------------------- *)

\* C1 (as claimed): on a resource written by N insert_datum calls with one
\* key set, the N returned datum ids are pairwise distinct and retrieve on
\* each yields the handler applied to the kwargs of the call that returned it.
C1_RoundTripLaw ==
  \A r \in Resources :
    InsertOnly(files, issued, r) =>
      /\ Cardinality({x.datum_id : x \in IssuedOn(r)})
           = Len(files[r]["datum_id"])
      /\ \A x \in IssuedOn(r) : RoundTrips(files, cache, x)

\* C2 (as claimed): a bulk_insert_datum on a resource that an earlier
\* bulk_insert_datum succeeded on fails with ResourceAlreadyMaterialized and
\* leaves the container of the first call as it was.
C2_SecondBulkRejected ==
  [][\A r \in Resources, t \in Columns :
       ( /\ BulkInsertDatum(r, t)
         /\ SameLength(t)
         /\ \E x \in IssuedOn(r) : x.op = "bulk_insert_datum" )
       => /\ last'.kind = "ResourceAlreadyMaterialized"
          /\ files' = files]_vars

\* what C3 says of one insert_datum(r, kw) step
C3Post(r, kw) ==
  /\ last'.kind = "ok"
  /\ Len(last'.ids) = 1
  /\ last'.ids[1] = make_datum_id(r, LocalId(last'.ids[1]))
  /\ NoSlash(LocalId(last'.ids[1]))
  /\ \A x \in issued : x.datum_id # last'.ids[1]
  /\ \A q \in Resources : ~Stored(files, q, LocalId(last'.ids[1]))
  /\ IF ~is_file(files, r)
     THEN /\ last'.path = "bulk"
          /\ DOMAIN files'[r] = DOMAIN kw \cup {"datum_id"}
          /\ files'[r]["datum_id"] = <<encode(LocalId(last'.ids[1]))>>
          /\ \A k \in DOMAIN kw : files'[r][k] = <<kw[k]>>
     ELSE /\ last'.path = "append"
          /\ DOMAIN files'[r] = DOMAIN files[r]
          /\ \A k \in DOMAIN files[r] :
               /\ Len(files'[r][k]) = Len(files[r][k]) + 1
               /\ IsPrefix(files[r][k], files'[r][k])
  /\ InsertOnly(files', issued', r) =>
       \A x \in {y \in issued' : y.resource = r} : RoundTrips(files', cache', x)

\* C3 (as claimed): insert_datum picks its write path from the container
\* state (none: a single-row bulk registration creating the container with
\* that one row; present: one row appended to every column, earlier rows
\* kept), returns the id "<uid>/<local_id>" with a fresh local id, and a later
\* retrieve on the ids of a first and a second insert_datum returns the first
\* and the second kwargs.
C3_InsertDatumPaths ==
  [][\A r \in Resources, kw \in DatumKwargs :
       ( /\ InsertDatum(r, kw)
         /\ is_file(files, r) => DOMAIN files[r] = DOMAIN kw \cup {"datum_id"}
         /\ is_file(files, r) => SameLength(files[r]) )
       => C3Post(r, kw)]_vars

\* the call just made is a bulk registration of an equal-length column table
\* on a resource that had no container
FirstBulk ==
  /\ last.op = "bulk_insert_datum"
  /\ ~last.pre
  /\ \A j, k \in DOMAIN last.tab : Len(last.tab[j]) = Len(last.tab[k])

\* C4: bulk registration of a column table with n rows on an unmaterialized
\* resource R returns exactly n datum ids (n the length of a column, not the
\* number of columns), pairwise distinct, each "R.uid/<local_id>", in row
\* order: retrieve on the i-th id yields the handler output of the i-th row.
C4_BulkReturnsRowIds ==
  FirstBulk =>
    /\ last.kind = "ok"
    /\ \A k \in DOMAIN last.tab : Len(last.ids) = Len(last.tab[k])
    /\ \A i, j \in 1..Len(last.ids) : i # j => last.ids[i] # last.ids[j]
    /\ \A i \in 1..Len(last.ids) :
         /\ last.ids[i] = make_datum_id(last.res, LocalId(last.ids[i]))
         /\ LocalId(last.ids[i]) # <<>>
         /\ NoSlash(LocalId(last.ids[i]))
         /\ retrieve(files, cache, last.ids[i]).kind = "ok"
         /\ retrieve(files, cache, last.ids[i]).value
              = {handler(last.res, [k \in DOMAIN last.tab |-> last.tab[k][i]])}

\* C4 witness: a one-column table of two different rows has been registered
C4_Witness ==
  /\ FirstBulk
  /\ DOMAIN last.tab = {"v"}
  /\ Len(last.tab["v"]) = 2
  /\ last.tab["v"][1] # last.tab["v"][2]
  /\ Len(last.ids) = 2

\* C5 (as claimed): a container comes into being by a bulk registration only,
\* and once it exists no call deletes it, re-creates it, or removes or
\* replaces a row stored in it; appends only add rows.
C5_MaterializedIsTerminal ==
  [][\A r \in Resources :
       /\ (~is_file(files, r) /\ is_file(files', r))
            => /\ last'.op \in {"insert_datum", "bulk_insert_datum",
                               "bulk_register_datum_table"}
               /\ last'.path = "bulk"
       /\ is_file(files, r)
            => /\ is_file(files', r)
               /\ DOMAIN files'[r] = DOMAIN files[r]
               /\ \A k \in DOMAIN files[r] : IsPrefix(files[r][k], files'[r][k])
    ]_vars

\* C6: retrieve on a datum_id without '/' fails with DatumNotFound before any
\* handler lookup, cache access or container read; the cache and every
\* container stay as they were.
C6_MalformedIdRejected ==
  [][(last'.op = "retrieve" /\ NoSlash(last'.id))
       => /\ last'.kind = "DatumNotFound"
          /\ last'.value = {}
          /\ cache' = cache
          /\ files' = files]_vars

\* C6 witness: retrieve("r1") has been refused while r1 had a container that
\* no retrieve had read yet
C6_Witness ==
  /\ last.op = "retrieve"
  /\ last.id = <<"r1">>
  /\ last.kind = "DatumNotFound"
  /\ is_file(files, <<"r1">>)
  /\ <<"r1">> \notin DOMAIN cache

\* C7 (as claimed): retrieve on a well-formed id of a known resource whose
\* local id is not a row of the resource's row table (the resource may have
\* no container) fails with DatumNotFound and with no other error.
C7_UnknownLocalIdIsDatumNotFound ==
  ( /\ last.op = "retrieve"
    /\ ~NoSlash(last.id)
    /\ last.res \in Resources
    /\ ~Stored(files, last.res, LocalId(last.id))
    /\ ~Cached(cache, last.res, LocalId(last.id)) )
  => last.kind = "DatumNotFound"

\* C8 (as claimed): for every stored datum id retrieve gives the same answer
\* from the cache as from the container, and two retrieves in a row agree.
C8_WarmEqualsCold ==
  \A x \in issued :
    Stored(files, x.resource, LocalId(x.datum_id)) =>
      LET warm == retrieve(files, cache, x.datum_id)
          cold == retrieve(files, EmptyMap, x.datum_id)
          again == retrieve(files, warm.cache, x.datum_id)
      IN  /\ warm.kind = cold.kind
          /\ warm.value = cold.value
          /\ again.kind = warm.kind
          /\ again.value = warm.value

\* C9 (as claimed): of two first writers that both saw no container, one
\* registration wins and the other is told ResourceAlreadyMaterialized; never
\* do both report success.
C9_OneFirstWriterWins ==
  /\ \A r \in Resources :
       Cardinality({x \in IssuedOn(r) : x.path = "bulk"}) <= 1
  /\ (last.op = "insert_datum" /\ last.path = "bulk" /\ last.pre)
       => /\ last.kind = "ResourceAlreadyMaterialized"
          /\ last.ids = <<>>

\* C10 (as claimed): insert_datum never surfaces ResourceAlreadyMaterialized
\* (it retries as an append), and under any interleaving of two insert_datum
\* calls every datum id a successful insert_datum returned is a row of the
\* container afterwards.
C10_NoReturnedDatumLost ==
  /\ last.kind # "ResourceAlreadyMaterialized"
  /\ \A x \in issued :
       x.op = "insert_datum" => Stored(files, x.resource, LocalId(x.datum_id))

\* C11: the datum cache never holds more row tables than its configured
\* maximum, whatever retrieves ran over however many resources, and every
\* cached entry is the row table of one resource whose container was read.
C11_CacheWithinMaxSize ==
  /\ Cardinality(DOMAIN cache) <= max_size
  /\ \A r \in DOMAIN cache :
       /\ r \in Resources
       /\ is_file(files, r)
       /\ \A i \in 1..Len(cache[r].index) :
            \E n \in 1..nextId : cache[r].index[i] = uuid4(n)
       /\ \A k \in DOMAIN cache[r].data :
            Len(cache[r].data[k]) = Len(cache[r].index)

\* C11 witness: a retrieve has filled a full cache, which gave up the table
\* of another resource to stay at its maximum
C11_Witness ==
  /\ last.op = "retrieve"
  /\ last.kind = "ok"
  /\ last.evicted # {}
  /\ last.res \in DOMAIN cache
  /\ Cardinality(DOMAIN cache) = max_size

\* C12: resource_given_datum_id on a datum id that insert_datum or a bulk
\* registration returned for resource r gives r, by splitting the id at its
\* first '/': it changes no container, cache entry or counter, and splitting
\* make_datum_id(r, local) gives back r and local.
C12_ResourceOfDatumId ==
  [][ /\ \A r \in Resources \cup {UnknownUid} : \A n \in 1..nextId :
           /\ partition(make_datum_id(r, uuid4(n))) = <<r, uuid4(n)>>
           /\ resource_given_datum_id(make_datum_id(r, uuid4(n))) = r
      /\ \A x \in issued : resource_given_datum_id(x.datum_id) = x.resource
      /\ last'.op = "resource_given_datum_id"
           => /\ last'.res = resource_given_datum_id(last'.id)
              /\ \A x \in issued : x.datum_id = last'.id => last'.res = x.resource
              /\ files' = files
              /\ cache' = cache
              /\ nextId' = nextId
              /\ issued' = issued ]_vars

\* C12 witness: the resource of an id a write returned has been asked for
\* while another resource had ids of its own
C12_Witness ==
  /\ last.op = "resource_given_datum_id"
  /\ \E x \in issued : x.datum_id = last.id /\ x.resource = last.res
  /\ is_file(files, last.res)
  /\ \E y \in issued : y.resource # last.res

\* C13 (as claimed): get_datum_by_res_gen on a resource with a container
\* yields one Datum per stored row, in storage order, each carrying the
\* datum_id "<resource_uid>/<local_id>" that the write of the row returned
\* and the datum_kwargs that were inserted; a second call starts again at the
\* first row and shows the rows appended since.
C13_IterationYieldsStoredDatums ==
  (last.op = "get_datum_by_res_gen" /\ last.pre) =>
    /\ last.kind = "ok"
    /\ Len(last.gen) = Len(files[last.res]["datum_id"])
    /\ \A i \in 1..Len(last.gen) :
         /\ last.gen[i].resource = last.res
         /\ last.gen[i].datum_id
              = make_datum_id(last.res, decode(files[last.res]["datum_id"][i]))
         /\ \E x \in IssuedOn(last.res) :
              /\ x.datum_id = last.gen[i].datum_id
              /\ x.datum_kwargs = last.gen[i].datum_kwargs

\* the columns of a mapping are not all of one length
Ragged(tab) == \E j, k \in DOMAIN tab : Len(tab[j]) # Len(tab[k])

C15_ValidateNotSupported ==
  [][(last'.op = "bulk_register_datum_table" /\ last'.validate)
       => /\ last'.kind = "RuntimeError"
          /\ last'.ids = <<>>
          /\ files' = files
          /\ nextId' = nextId
          /\ issued' = issued
          /\ cache' = cache]_vars

\* C15 witness: a validated registration has failed on a resource that has a
\* container holding an id returned earlier
C15_Witness ==
  /\ last.op = "bulk_register_datum_table"
  /\ last.validate
  /\ last.kind = "RuntimeError"
  /\ last.pre
  /\ \E x \in IssuedOn(last.res) : Stored(files, last.res, LocalId(x.datum_id))

\* the row table of r's container: the local ids of its rows, in order, and
\* its kwargs columns
TableOf(fs, r) ==
  [index |-> [i \in 1..Len(fs[r]["datum_id"]) |-> Tail(fs[r]["datum_id"][i])],
   data  |-> [k \in DOMAIN fs[r] \ {"datum_id"} |-> fs[r][k]]]

Invoked(i) == i \in DOMAIN pv.seen

\* C17, the PV that does not connect: wait_for_connection returns False, the
\* PV is never connected and never runs a value callback
C17_NeverConnects ==
  [](pv.pvname = "does_not_connect"
       => /\ ~pv.connected
          /\ pv.seen = EmptyMap
          /\ pv.waited # "True"
          /\ pv.waited # "waiting")

\* C17, any other name: the PV is eventually connected, a call of
\* wait_for_connection returns True, and the connection callback has been
\* called by then
C17_Connects ==
  /\ (pv.pvname = "connects") ~> pv.connected
  /\ (pv.waited = "waiting") ~> (pv.waited = "True")
  /\ [](pv.waited = "True" => pv.connected /\ pv.conn_called)

\* C17, value callbacks: once the PV is connected, a registered value
\* callback is eventually called
C17_CallbackInvoked ==
  \A i \in 1..MaxCallbacks :
    (pv.connected /\ pv.has_callbacks /\ i \in pv.callbacks) ~> Invoked(i)

\* C17 (as claimed): a PV named 'does_not_connect' never connects, its
\* wait_for_connection returns False and it runs no value callback; a PV of
\* any other name, its update thread scheduled fairly, is eventually
\* connected, wait_for_connection returns True with the connection callback
\* already called, and after connection a registered value callback is
\* eventually called with the PV's value.
C17_ConnectionProtocol ==
  /\ C17_NeverConnects
  /\ C17_Connects
  /\ C17_CallbackInvoked

\* C18 (as claimed): once a retrieve has cached the row table of a resource,
\* a retrieve on the id that a later insert_datum appended to that resource
\* still resolves to the appended kwargs.
C18_AppendVisibleThroughCache ==
  \A x \in issued :
    ( /\ last.op = "retrieve"
      /\ last.id = x.datum_id
      /\ last.path = "hit"
      /\ x.op = "insert_datum"
      /\ x.path = "append"
      /\ Stored(files, x.resource, LocalId(x.datum_id)) )
    => /\ last.kind = "ok"
       /\ last.value = {handler(x.resource, x.datum_kwargs)}

NoDuplicates(col) == \A i, j \in 1..Len(col) : i # j => col[i] # col[j]

\* C19 (as claimed): after every bulk_insert_datum or insert_datum call,
\* whether it succeeded or failed (an insert_datum whose keys differ from
\* the container's columns included), all columns of every container,
\* datum_id among them, are of one length and datum_id holds no local id
\* twice; an insert_datum that failed left the container as it was.
C19_ContainerWellFormed ==
  [][ /\ \A r \in DOMAIN files' :
           /\ SameLength(files'[r])
           /\ NoDuplicates(files'[r]["datum_id"])
      /\ (last'.op = "insert_datum" /\ last'.kind # "ok") => files' = files
    ]_vars

\* the step was a write to one resource and left the container and the
\* cache entry of every other resource as they were
WritesKeepOthers ==
  last'.op \in {"insert_datum", "bulk_insert_datum", "bulk_register_datum_table"}
    => \A b \in Resources \ {last'.res} :
         /\ is_file(files', b) = is_file(files, b)
         /\ is_file(files, b) => files'[b] = files[b]
         /\ (b \in DOMAIN cache') = (b \in DOMAIN cache)
         /\ b \in DOMAIN cache => cache'[b] = cache[b]

\* the step was a read and changed no container; iteration left the cache
ReadsKeepFiles ==
  /\ last'.op \in {"retrieve", "get_datum_by_res_gen"} => files' = files
  /\ last'.op = "get_datum_by_res_gen" => cache' = cache

\* C20 (as claimed): a write to resource A leaves the container and the
\* cache entry of every other resource unchanged; retrieve and
\* get_datum_by_res_gen modify no container, and retrieve changes the cache
\* only by adding the entry of the resource named in the datum_id.
C20_FrameAsClaimed ==
  [][ /\ WritesKeepOthers
      /\ ReadsKeepFiles
      /\ last'.op = "retrieve"
           => /\ DOMAIN cache' \subseteq DOMAIN cache \cup {last'.res}
              /\ \A b \in DOMAIN cache : b \in DOMAIN cache' /\ cache'[b] = cache[b]
    ]_vars

\* C20 (amended): as claimed, except that a retrieve which stores a frame
\* in a cache that is at its maximum also discards entries of other
\* resources; it alters no entry it keeps and adds none but the entry of the
\* resource named in the datum_id.
C20_FrameWithDiscard ==
  [][ /\ WritesKeepOthers
      /\ ReadsKeepFiles
      /\ last'.op = "retrieve"
           => /\ DOMAIN cache' \subseteq DOMAIN cache \cup {last'.res}
              /\ \A b \in DOMAIN cache \cap DOMAIN cache' : cache'[b] = cache[b]
              /\ DOMAIN cache \ DOMAIN cache' # {}
                   => /\ Cardinality(DOMAIN cache) = max_size
                      /\ last'.res \in DOMAIN cache' \ DOMAIN cache
    ]_vars

\* C20 witness: a retrieve on one resource has stored its frame and pushed
\* the frame of another resource, whose container is still there, out of the
\* full cache
C20_Witness ==
  /\ last.op = "retrieve"
  /\ last.path = "fill"
  /\ \E b \in last.evicted : b # last.res /\ is_file(files, b)
  /\ last.res \in DOMAIN cache

Ascending(order) == \A i, j \in 1..Len(order) : i < j => order[i] < order[j]

\* C21, the value: after put(v) the update loop never changes the value
\* again; it is v until the next put
C21_ValueFrozen == [](~pv.update => pv.value = pv.put)

\* C21, delivery: if v is not the value last delivered, every registered
\* callback is eventually called with v, unless another put comes first
C21_PutDelivered ==
  \A v \in PutValues : \A i \in 1..MaxCallbacks :
    (pv.put = v /\ pv.last_value # v /\ i \in pv.callbacks)
      ~> (pv.put # v \/ (Invoked(i) /\ pv.seen[i] = v))

\* C21, the calls: callbacks are called in ascending index order, and only
\* while the update loop holds the PV lock
C21_CalledUnderLock ==
  [](pv.call.by # "none"
       => /\ Ascending(pv.call.order)
          /\ pv.call.by = "loop"
          /\ pv.call.lock = "loop")

\* C21 (as claimed): put(v) freezes the value, which stays v in every later
\* state until the next put; if v differs from the value last delivered,
\* every registered callback is eventually called with v; callbacks are
\* called in ascending index order and only while the update loop holds the
\* PV lock.
C21_PutFreezesValue ==
  /\ C21_ValueFrozen
  /\ C21_PutDelivered
  /\ C21_CalledUnderLock

\* C22, the memo: already_computed is the source's first elements, in the
\* source's order, and holds everything self.it has handed out.
C22_Prefix ==
  /\ Len(ix.already_computed) = ix.it
  /\ ix.it <= Len(ix.source)
  /\ ix.already_computed = SubSeq(ix.source, 1, ix.it)

\* C22, consumption: no element of the source is taken from self.it twice.
C22_ConsumedOnce == \A i \in DOMAIN ix.taken : ix.taken[i] <= 1

\* C22, the lookup: indexable[i] with 0 <= i < len(source) returns the
\* i-th element of the source.
C22_GetItemReturns ==
  (ix.ret.op = "getitem" /\ ix.ret.index < Len(ix.source))
    => /\ ix.ret.res = "ok"
       /\ ix.ret.value = ix.source[ix.ret.index + 1]

\* C22: under any interleaving of next() on generators of __iter__ and of
\* __getitem__ with integer indexes, already_computed is a prefix of the
\* source without duplicates or gaps, every element is consumed at most
\* once, and __getitem__(i) returns the i-th element.
C22_IndexableMemoization ==
  /\ C22_Prefix
  /\ C22_ConsumedOnce
  /\ C22_GetItemReturns

\* a generator is suspended at its yield, and a lookup past the memo has
\* taken elements from self.it after the ones the generator appended
C22_Witness ==
  /\ \E g \in Generators : ix.gen[g] = "suspended"
  /\ ix.ret.op = "getitem"
  /\ ix.ret.res = "ok"
  /\ ix.ret.n > 0
  /\ ix.ret.index >= ix.ret.n

====
